---- MODULE Spec2Model ----
(***************************************************************************)
(* A model of the agentic_app orchestration loop (Agent.run), its sliding  *)
(* window rate limiter (InMemoryRateLimiter.allow) and its event log       *)
(* (MemoryStore).                                                          *)
(*                                                                         *)
(* Time is counted in ticks of 1/TicksPerSec second, so that sub-second    *)
(* remainders of time.time() are representable.                            *)
(***************************************************************************)
EXTENDS Integers, Sequences, FiniteSets, TLC

VARIABLES
    calls,       \* InMemoryRateLimiter._calls: key -> list of timestamps (ticks)
    now,         \* the wall clock, in ticks
    events,      \* MemoryStore: the rows of table events, in insertion order
    rule,        \* the RateLimit the registry declares for its rate-limited tools
    fallback_llm,\* TRUE iff Agent.fallback_llm is not None
    pc,          \* position of the current call of Agent.run
    session_id,  \* run's argument session_id
    max_iters,   \* run's argument max_iters
    iteration,   \* run's loop variable
    steps,       \* run's local list steps
    llm_resp,    \* run's local llm_resp
    args,        \* the arguments mapping of the current tool call
    result,      \* what run returned or raised
    lastCheck,   \* history: the most recent call of allow and what it decided
    admitted,    \* history: key -> every timestamp allow admitted, in order
    hist,        \* history of the run: the oracle calls, limiter checks, audit
                 \* events and handler calls it made, and for the current
                 \* iteration the request built for the oracles, what they were
                 \* asked, the oracle that decided (via), the error the primary
                 \* oracle raised and the arguments as the oracle gave them
    thr,         \* concurrent callers of allow: thread -> its position and locals
    recent       \* the last call of get_recent on the log as it is: what was asked
                 \* and the rows returned

limVars == <<calls, now, lastCheck, admitted>>
cfgVars == <<rule, fallback_llm>>
runVars == <<pc, session_id, max_iters, iteration, steps, llm_resp, args, result, hist>>
vars == <<calls, now, events, rule, fallback_llm, pc, session_id, max_iters, iteration,
          steps, llm_resp, args, result, lastCheck, admitted, hist, thr, recent>>

(***************************************************************************)
(* Bounds of the model.                                                    *)
(***************************************************************************)
TicksPerSec == 2
MaxCalls == 2
MaxWindow == 2
MaxTime == 5
MaxRunTime == 1
MaxIters == 2
MaxThreads == 2
MaxRuns == 2
MaxSeqTime == 3

Max(a, b) == IF a >= b THEN a ELSE b

RECURSIVE MinOf(_)
MinOf(s) == IF Len(s) = 1 THEN s[1]
            ELSE LET m == MinOf(Tail(s)) IN IF s[1] <= m THEN s[1] ELSE m

\* Python's int() of a float given as x ticks: truncation toward zero of x/TicksPerSec.
IntOfTicks(x) == IF x >= 0 THEN x \div TicksPerSec ELSE -((-x) \div TicksPerSec)

(***************************************************************************)
(* The rate limiter.                                                       *)
(***************************************************************************)
Sessions == {"s1", "s2"}

\* The session of the call of run that is followed.
RunSessions == {"s1"}

RateLimit(n, w) == [max_calls |-> n, window_seconds |-> w]

Rules == {RateLimit(n, w) : n \in 0..MaxCalls, w \in 1..MaxWindow}

\* The rules the registry of a run is built with: every max_calls, a window of 1 s.
RunRules == {r \in Rules : r.window_seconds = 1}

Key(s, t) == s \o ":" \o t

\* self._calls.get(key, [])
CallsGet(c, key) == IF key \in DOMAIN c THEN c[key] ELSE <<>>

\* self._calls[key] = v
CallsPut(c, key, v) == [k \in DOMAIN c \cup {key} |-> IF k = key THEN v ELSE c[k]]

WindowTicks(r) == r.window_seconds * TicksPerSec

PruneMutantKeepAll(cs, cutoff) == cs

PruneMutantDropsAll(cs, cutoff) == <<>>

\* [t for t in calls if t >= cutoff]
Prune(cs, cutoff) == SelectSeq(cs, LAMBDA t : t >= cutoff)

\* max(1, int((oldest_call + rule.window_seconds) - now))
RetryAfter(oldest, r, t) == Max(1, IntOfTicks((oldest + WindowTicks(r)) - t))

AllowDecisionMutantOffByOne(kept, r, t) ==
    IF Len(kept) > r.max_calls
    THEN IF kept = <<>>
         THEN [outcome |-> "raise", allowed |-> FALSE, retry_after_seconds |-> 0, calls |-> kept]
         ELSE [outcome |-> "return", allowed |-> FALSE,
               retry_after_seconds |-> RetryAfter(MinOf(kept), r, t), calls |-> kept]
    ELSE [outcome |-> "return", allowed |-> TRUE, retry_after_seconds |-> 0,
          calls |-> Append(kept, t)]

\* Lines 31-38 of allow on the pruned list: the decision, and the list that is
\* stored under the key.  min() of an empty list raises ValueError, after the
\* pruned list was stored.
AllowDecision(kept, r, t) ==
    IF Len(kept) >= r.max_calls
    THEN IF kept = <<>>
         THEN [outcome |-> "raise", allowed |-> FALSE, retry_after_seconds |-> 0, calls |-> kept]
         ELSE [outcome |-> "return", allowed |-> FALSE,
               retry_after_seconds |-> RetryAfter(MinOf(kept), r, t), calls |-> kept]
    ELSE [outcome |-> "return", allowed |-> TRUE, retry_after_seconds |-> 0,
          calls |-> Append(kept, t)]

\* allow(session_id, tool_name, rule) run without interruption at time t.
Allow(c, s, tool, r, t) ==
    AllowDecision(Prune(CallsGet(c, Key(s, tool)), t - WindowTicks(r)), r, t)

NoCheck == [key |-> "", now |-> 0, outcome |-> "none", allowed |-> FALSE,
            retry_after_seconds |-> 0, before |-> <<>>, granted |-> <<>>]

\* The effect of one uninterrupted call of allow on the limiter and its history.
DoAllow(s, tool, r) ==
    LET key == Key(s, tool)
        d == Allow(calls, s, tool, r, now)
    IN /\ calls' = CallsPut(calls, key, d.calls)
       /\ lastCheck' = [key |-> key, now |-> now, outcome |-> d.outcome,
                        allowed |-> d.allowed,
                        retry_after_seconds |-> d.retry_after_seconds,
                        before |-> CallsGet(calls, key),
                        granted |-> CallsGet(admitted, key)]
       /\ admitted' = IF d.allowed
                      THEN CallsPut(admitted, key, Append(CallsGet(admitted, key), now))
                      ELSE admitted


(***************************************************************************)
(* Python values, as far as the loop looks at them: their type, their      *)
(* truth value, and for strings the form that date parsing distinguishes.  *)
(***************************************************************************)
MaxDay == 3
MaxRows == 4
MaxStamp == 2
MaxLimit == 2

\* date.today(), as a day number; day numbers range over 0..MaxDay.
Today == MaxDay - 2

PyNone == [ty |-> "NoneType", form |-> "None", s |-> "None", d |-> 0]

PyBool(b) == [ty |-> "bool", form |-> IF b THEN "True" ELSE "False",
              s |-> IF b THEN "True" ELSE "False", d |-> 0]

\* A string that is no date: "" (form empty), whitespace only (form blank), other text.
PyStr(s) == [ty |-> "str",
             form |-> IF s = "" THEN "empty" ELSE IF s = " " THEN "blank" ELSE "text",
             s |-> s, d |-> 0]

\* The string YYYY-MM-DD of day d.
IsoDate(d) == [ty |-> "str", form |-> "date", s |-> "D" \o ToString(d), d |-> d]

\* The string YYYY-MM-DDT00:00:00Z of day d.
IsoDateTimeZ(d) == [ty |-> "str", form |-> "datetimeZ",
                    s |-> "D" \o ToString(d) \o "T00:00:00Z", d |-> d]

\* The string YYYY-MM-DD of day d with surrounding blanks.
PaddedDate(d) == [ty |-> "str", form |-> "padded", s |-> " D" \o ToString(d) \o " ", d |-> d]

TruthyMutantNotNone(v) == v.ty # "NoneType"

\* bool(v)
Truthy(v) == CASE v.ty = "NoneType" -> FALSE
               [] v.ty = "bool" -> v.form = "True"
               [] v.ty = "str" -> v.form # "empty"
               [] OTHER -> TRUE

EmptyArgs == [k \in {} |-> PyNone]

\* args.get(k, default)
Get(a, k, default) == IF k \in DOMAIN a THEN a[k] ELSE default

\* args[k] = v
Put(a, k, v) == [x \in DOMAIN a \cup {k} |-> IF x = k THEN v ELSE a[x]]

\* args.pop(k, None)
Pop(a, k) == [x \in DOMAIN a \ {k} |-> a[x]]

(***************************************************************************)
(* Exceptions carry their message as a list of characters, so that         *)
(* str(e).lower() and the substring test on it are computed.               *)
(***************************************************************************)
UpperCase == <<"A", "B", "C", "D", "E", "F", "G", "H", "I", "J", "K", "L", "M",
               "N", "O", "P", "Q", "R", "S", "T", "U", "V", "W", "X", "Y", "Z">>
LowerCase == <<"a", "b", "c", "d", "e", "f", "g", "h", "i", "j", "k", "l", "m",
               "n", "o", "p", "q", "r", "s", "t", "u", "v", "w", "x", "y", "z">>

LowerChar(c) == IF \E i \in DOMAIN UpperCase : UpperCase[i] = c
                THEN LowerCase[CHOOSE i \in DOMAIN UpperCase : UpperCase[i] = c]
                ELSE c

\* str.lower()
Lower(cs) == [i \in DOMAIN cs |-> LowerChar(cs[i])]

\* needle in cs
Contains(cs, needle) ==
    \E i \in 0..(Len(cs) - Len(needle)) :
        \A j \in 1..Len(needle) : cs[i + j] = needle[j]

RECURSIVE Join(_)
\* str(e)
Join(cs) == IF cs = <<>> THEN "" ELSE Head(cs) \o Join(Tail(cs))

RateLimitNeedle == <<"r", "a", "t", "e", " ", "l", "i", "m", "i", "t">>

\* "Groq API rate limit reached" (llm_groq.py) and "provider throttled" (the tests)
MsgGroq == <<"G", "r", "o", "q", " ", "A", "P", "I", " ", "r", "a", "t", "e", " ",
             "l", "i", "m", "i", "t", " ", "r", "e", "a", "c", "h", "e", "d">>
MsgThrottled == <<"p", "r", "o", "v", "i", "d", "e", "r", " ", "t", "h", "r", "o",
                  "t", "t", "l", "e", "d">>
MsgUpper == <<"R", "a", "t", "e", " ", "L", "i", "m", "i", "t">>
MsgCode == <<"r", "a", "t", "e", "_", "l", "i", "m", "i", "t">>

PrimaryErrors == {MsgGroq, MsgThrottled, MsgUpper, MsgCode}
FallbackErrors == {MsgThrottled}

CanFallbackMutantAnyError(has_fallback, e) == has_fallback

CanFallbackMutantIgnoresConfig(has_fallback, e) == Contains(Lower(e), RateLimitNeedle)

\* self.fallback_llm is not None and "rate limit" in str(e).lower()
CanFallback(has_fallback, e) == has_fallback /\ Contains(Lower(e), RateLimitNeedle)


(***************************************************************************)
(* Argument validation of the flight search tools.                         *)
(***************************************************************************)
NoDate == -1

\* str(value).strip()
Strip(v) == CASE v.form = "blank" -> PyStr("")
              [] v.form = "padded" -> IsoDate(v.d)
              [] v.ty # "str" -> PyStr(v.s)
              [] OTHER -> v

ParseDateFieldMutantDateOnly(v) ==
    LET raw == Strip(v)
    IN IF raw.form = "date" THEN raw.d ELSE NoDate

\* _parse_date_field: the day the value denotes, or NoDate (None).
\* date.fromisoformat accepts the plain date; datetime.fromisoformat, after a
\* trailing Z became +00:00, the full timestamp, of which .date() is kept.
ParseDateField(v) ==
    LET raw == Strip(v)
    IN IF raw.form = "empty" THEN NoDate
       ELSE IF raw.form = "date" THEN raw.d
       ELSE IF raw.form = "datetimeZ" THEN raw.d
       ELSE NoDate

PastTextMutantNoToday(d) == "depart_date " \o IsoDate(d).s \o " is in the past."

\* Line 70: the error for a depart_date before date.today().
PastText(d) == "depart_date " \o IsoDate(d).s \o " is in the past (today is "
               \o IsoDate(Today).s \o ")."

ValidateMutantKeepsEarlyReturn(a) ==
    LET depart_raw == Get(a, "depart_date", PyNone)
        depart_date == ParseDateField(depart_raw)
        a1 == Put(a, "depart_date", IsoDate(depart_date))
        return_raw == Get(a1, "return_date", PyNone)
        return_date == ParseDateField(return_raw)
        a2 == Put(a1, "return_date", IsoDate(return_date))
    IN IF ~Truthy(depart_raw)
       THEN [error |-> "Missing required depart_date.", args |-> a]
       ELSE IF depart_date = NoDate
       THEN [error |-> "Invalid depart_date format. Use YYYY-MM-DD.", args |-> a]
       ELSE IF depart_date < Today
       THEN [error |-> PastText(depart_date), args |-> a1]
       ELSE IF ~Truthy(return_raw)
       THEN [error |-> "", args |-> a1]
       ELSE IF return_date = NoDate
       THEN [error |-> "", args |-> Pop(a1, "return_date")]
       ELSE [error |-> "", args |-> a2]

ValidateMutantStrictReturn(a) ==
    LET depart_raw == Get(a, "depart_date", PyNone)
        depart_date == ParseDateField(depart_raw)
        a1 == Put(a, "depart_date", IsoDate(depart_date))
        return_raw == Get(a1, "return_date", PyNone)
        return_date == ParseDateField(return_raw)
        a2 == Put(a1, "return_date", IsoDate(return_date))
    IN IF ~Truthy(depart_raw)
       THEN [error |-> "Missing required depart_date.", args |-> a]
       ELSE IF depart_date = NoDate
       THEN [error |-> "Invalid depart_date format. Use YYYY-MM-DD.", args |-> a]
       ELSE IF depart_date < Today
       THEN [error |-> PastText(depart_date), args |-> a1]
       ELSE IF ~Truthy(return_raw)
       THEN [error |-> "", args |-> a1]
       ELSE IF return_date = NoDate
       THEN [error |-> "Invalid return_date format. Use YYYY-MM-DD.", args |-> a1]
       ELSE IF return_date < depart_date
       THEN [error |-> "return_date is before depart_date.", args |-> a2]
       ELSE [error |-> "", args |-> a2]

\* _validate_flight_search_args: the error it returns ("" for None) and the
\* arguments mapping as it leaves it (it rewrites the mapping in place).
ValidateFlightSearchArgs(a) ==
    LET depart_raw == Get(a, "depart_date", PyNone)
        depart_date == ParseDateField(depart_raw)
        a1 == Put(a, "depart_date", IsoDate(depart_date))
        return_raw == Get(a1, "return_date", PyNone)
        return_date == ParseDateField(return_raw)
        a2 == Put(a1, "return_date", IsoDate(return_date))
    IN IF ~Truthy(depart_raw)
       THEN [error |-> "Missing required depart_date.", args |-> a]
       ELSE IF depart_date = NoDate
       THEN [error |-> "Invalid depart_date format. Use YYYY-MM-DD.", args |-> a]
       ELSE IF depart_date < Today
       THEN [error |-> PastText(depart_date), args |-> a1]
       ELSE IF ~Truthy(return_raw)
       THEN [error |-> "", args |-> a1]
       ELSE IF return_date = NoDate
       THEN [error |-> "", args |-> Pop(a1, "return_date")]
       ELSE IF return_date < depart_date
       THEN [error |-> "", args |-> Pop(a2, "return_date")]
       ELSE [error |-> "", args |-> a2]

(***************************************************************************)
(* The registry the Agent is constructed with: the tool names of           *)
(* build_tools; search_flights_amadeus declares no rate limit (as in the   *)
(* tests), the others declare the rule chosen at construction.             *)
(***************************************************************************)
ToolNames == {"confirm_booking", "hold_booking", "search_flights_priceline",
              "search_flights_amadeus"}

\* tool.rate_limit is not None
HasRateLimit(tool) == tool # "search_flights_amadeus"

SearchTools == {"search_flights_amadeus", "search_flights_priceline"}

KnownToolMutantAny(name) == TRUE

\* self.tools.get(tool_name) is not None
KnownTool(name) == name \in ToolNames

(***************************************************************************)
(* What a decision oracle may answer.                                      *)
(***************************************************************************)
ToolCall(name, a) == [tool_name |-> name, arguments |-> a]

NoToolCall == ToolCall("", EmptyArgs)

LLMResponse(has_call, call, final_text) ==
    [has_tool_call |-> has_call, tool_name |-> call.tool_name,
     arguments |-> call.arguments, final_text |-> final_text]

Hold == [hold_id |-> PyStr("HOLD-PL-102")]

ConfirmCalls ==
    {ToolCall("confirm_booking", Hold)} \cup
    {ToolCall("confirm_booking", Put(Hold, "user_approved", v)) :
        v \in {PyBool(TRUE), PyBool(FALSE), PyStr("false"), PyStr(""), PyNone}}

Route == [origin |-> PyStr("SFO"), destination |-> PyStr("JFK")]

SearchCalls ==
    {ToolCall("search_flights_priceline", Route),
     ToolCall("search_flights_priceline", Put(Route, "depart_date", PyStr("not a date"))),
     ToolCall("search_flights_priceline", Put(Route, "depart_date", IsoDate(Today - 1))),
     ToolCall("search_flights_priceline", Put(Route, "depart_date", IsoDate(Today))),
     ToolCall("search_flights_priceline",
              Put(Put(Route, "depart_date", IsoDateTimeZ(Today + 1)),
                  "return_date", PyStr("next friday"))),
     ToolCall("search_flights_priceline",
              Put(Put(Route, "depart_date", IsoDate(Today + 1)),
                  "return_date", IsoDate(Today))),
     ToolCall("search_flights_amadeus",
              Put(Put(Route, "depart_date", IsoDateTimeZ(Today + 1)),
                  "return_date", IsoDateTimeZ(Today + 2)))}

OtherCalls ==
    {ToolCall("hold_booking", [option_id |-> PyStr("PL-102")]),
     ToolCall("no_such_tool", EmptyArgs)}

ToolCalls == ConfirmCalls \cup SearchCalls \cup OtherCalls

Decisions ==
    {LLMResponse(TRUE, c, PyNone) : c \in ToolCalls} \cup
    {LLMResponse(TRUE, ToolCall("hold_booking", [option_id |-> PyStr("PL-102")]), PyStr("")),
     LLMResponse(TRUE, ToolCall("confirm_booking", Hold), PyStr("done")),
     LLMResponse(FALSE, NoToolCall, PyStr("done")),
     LLMResponse(FALSE, NoToolCall, PyStr("")),
     LLMResponse(FALSE, NoToolCall, PyNone)}

\* What the fallback oracle may answer: the kinds of decision of the local
\* stub (a search with plain dates, a hold, a final text), and a confirmation,
\* an unknown tool and an empty decision besides.
FallbackDecisions ==
    {LLMResponse(TRUE, c, PyNone) :
        c \in {ToolCall("search_flights_priceline", Put(Route, "depart_date", IsoDate(Today))),
               ToolCall("hold_booking", [option_id |-> PyStr("PL-102")]),
               ToolCall("confirm_booking", Hold),
               ToolCall("no_such_tool", EmptyArgs)}} \cup
    {LLMResponse(FALSE, NoToolCall, PyStr("done")),
     LLMResponse(FALSE, NoToolCall, PyNone)}


(***************************************************************************)
(* Agent.run.                                                              *)
(***************************************************************************)
Goal == "Book me a flight SFO to JFK under $500."

NoMeta == [kind |-> "none", tool_name |-> "", args |-> EmptyArgs]
RequestedArgs(a) == [kind |-> "requested_args", tool_name |-> "", args |-> a]
ToolArgs(tool, a) == [kind |-> "tool_args", tool_name |-> tool, args |-> a]
ToolResult(tool) == [kind |-> "tool_result", tool_name |-> tool, args |-> EmptyArgs]

\* The row add_event inserts at the current time.
Event(s, role, content, meta) ==
    [session_id |-> s, ts |-> now, role |-> role, content |-> content, meta |-> meta]

\* One entry of the list steps.
Step(type, tool, text, a, n) ==
    [type |-> type, iteration |-> iteration, tool |-> tool, text |-> text,
     args |-> a, n |-> n]

RecentLimit == 100

\* get_recent: the rows of the session ORDER BY ts DESC LIMIT limit, reversed,
\* that is the limit rows of greatest ts, in ascending order of ts.  Rows of
\* equal ts come out of the index on (session_id, ts) in the order of their
\* insertion.
GetRecent(evs, s, limit) ==
    LET mine == SelectSeq(evs, LAMBDA e : e.session_id = s)
        Before(i, j) == mine[i].ts < mine[j].ts \/ (mine[i].ts = mine[j].ts /\ i < j)
        Place(i) == 1 + Cardinality({j \in DOMAIN mine : Before(j, i)})
        byTs == [k \in DOMAIN mine |-> mine[CHOOSE i \in DOMAIN mine : Place(i) = k]]
    IN IF Len(byTs) <= limit THEN byTs
       ELSE SubSeq(byTs, Len(byTs) - limit + 1, Len(byTs))

NoQuery == [asked |-> FALSE, session_id |-> "", limit |-> 0, rows |-> <<>>]

\* Line 95: what of each row is shown to the oracle.
MemoryForLLM(rows) ==
    [i \in DOMAIN rows |->
        [role |-> rows[i].role, content |-> rows[i].content, meta |-> rows[i].meta]]

RagRetrieve(goal) ==
    "User preferences: prefer direct flights, avoid redeye when possible."

\* The keyword arguments of a call of decide.
DecideRequest(goal, memory_for_llm, tool_specs, rag_context) ==
    [user_goal |-> goal, memory_events |-> memory_for_llm, tools |-> tool_specs,
     rag_context |-> rag_context]

NoRequest == DecideRequest("", <<>>, {}, "")

\* Lines 92-95: the request built at the head of an iteration, from the log as
\* it is then.
BuildRequest(evs, s) ==
    DecideRequest(Goal, MemoryForLLM(GetRecent(evs, s, RecentLimit)), ToolNames,
                  RagRetrieve(Goal))

FallbackRequestMutantRereads(request, evs, s) == BuildRequest(evs, s)

\* Lines 128-133: the fallback oracle is handed the locals of the iteration,
\* the very ones the primary oracle was handed, whatever the log holds by now.
FallbackRequest(request, evs, s) == request

\* A call of decide of an oracle: what it was asked and whether it returned.
Ask(oracle, request, ok) ==
    [oracle |-> oracle, iteration |-> iteration, request |-> request, ok |-> ok]

NoResp == LLMResponse(FALSE, NoToolCall, PyNone)
NoResult == [kind |-> "none", final_text |-> ""]
NoHist == [primary |-> 0, fallback |-> 0, handler |-> <<>>, via |-> "none",
           checks |-> <<>>, error |-> <<>>, request |-> NoRequest, asked |-> <<>>,
           requested |-> EmptyArgs, audits |-> <<>>, quota |-> [k \in {} |-> <<>>]]

\* The decision request of the iteration is over: its locals are dead.
RequestOver(h) == [h EXCEPT !.request = NoRequest, !.asked = <<>>]

IdleRun ==
    /\ pc = "idle"
    /\ session_id = ""
    /\ max_iters = 0
    /\ iteration = 0
    /\ steps = <<>>
    /\ llm_resp = NoResp
    /\ args = EmptyArgs
    /\ result = NoResult
    /\ hist = NoHist

TerminateMutantOverwrites(role, msg, meta, trace) ==
    /\ events' = Append(SubSeq(events, 1, Len(events) - 1),
                        Event(session_id, role, msg, meta))
    /\ steps' = trace
    /\ result' = [kind |-> "return", final_text |-> msg]
    /\ pc' = "done"

\* return AgentResult(session_id, final_text=msg, steps) after add_event and the
\* last steps.append.
Terminate(role, msg, meta, trace) ==
    /\ events' = Append(events, Event(session_id, role, msg, meta))
    /\ steps' = trace
    /\ result' = [kind |-> "return", final_text |-> msg]
    /\ pc' = "done"

\* An exception leaves run.
Propagate(what) ==
    /\ result' = [kind |-> "raise", final_text |-> what]
    /\ pc' = "raised"

\* Lines 87-90: a call of run.
StartRun(s, m) ==
    /\ pc = "idle"
    /\ session_id' = s
    /\ max_iters' = m
    /\ events' = Append(events, Event(s, "user", Goal, NoMeta))
    /\ steps' = <<>>
    /\ iteration' = 0
    /\ llm_resp' = NoResp
    /\ args' = EmptyArgs
    /\ result' = NoResult
    /\ hist' = [NoHist EXCEPT !.quota = calls]
    /\ pc' = "loop"
    /\ UNCHANGED <<limVars, cfgVars, thr, recent>>

LoopContinuesMutantOneMore(i, m) == i < m + 1

\* for iteration in range(1, max_iters + 1): is there a next value?
LoopContinues(i, m) == i < m

\* Lines 91-107: the next iteration begins; the prompt is recorded.
BeginIteration ==
    /\ pc = "loop"
    /\ LoopContinues(iteration, max_iters)
    /\ iteration' = iteration + 1
    /\ steps' = Append(steps, [Step("llm_prompt", "", Goal, EmptyArgs, 0)
                                  EXCEPT !.iteration = iteration + 1])
    /\ pc' = "decide"
    /\ hist' = [hist EXCEPT !.via = "none", !.error = <<>>,
                            !.request = BuildRequest(events, session_id),
                            !.requested = EmptyArgs]
    /\ UNCHANGED <<limVars, cfgVars, events, session_id, max_iters, llm_resp, args,
                   result, thr, recent>>

ExhaustedMutantSilent ==
    /\ pc = "loop"
    /\ ~LoopContinues(iteration, max_iters)
    /\ result' = [kind |-> "return",
                  final_text |-> "Max iterations (" \o ToString(max_iters)
                                 \o ") reached without completion."]
    /\ pc' = "done"
    /\ UNCHANGED <<limVars, cfgVars, events, session_id, max_iters, iteration, steps,
                   llm_resp, args, hist, thr, recent>>

\* Lines 234-236: the range is exhausted.
Exhausted ==
    /\ pc = "loop"
    /\ ~LoopContinues(iteration, max_iters)
    /\ Terminate("agent",
                 "Max iterations (" \o ToString(max_iters) \o ") reached without completion.",
                 NoMeta, steps)
    /\ UNCHANGED <<limVars, cfgVars, session_id, max_iters, iteration, llm_resp, args,
                   hist, thr, recent>>

\* Lines 139-155: the decision in hand is recorded.
Decided(r, via) ==
    /\ llm_resp' = r
    /\ args' = r.arguments
    /\ steps' = Append(steps, Step("llm_result", r.tool_name, r.final_text.s,
                                   r.arguments, 0))
    /\ pc' = "dispatch"
    /\ hist' = [hist EXCEPT !.via = via,
                            !.requested = r.arguments,
                            !.primary = IF via = "primary" THEN @ + 1 ELSE @,
                            !.fallback = IF via = "fallback" THEN @ + 1 ELSE @,
                            !.asked = Append(@,
                                Ask(via,
                                    IF via = "primary" THEN hist.request
                                    ELSE FallbackRequest(hist.request, events, session_id),
                                    TRUE))]

\* Lines 109-115: self.llm.decide returns r.
PrimaryReturns(r) ==
    /\ pc = "decide"
    /\ Decided(r, "primary")
    /\ UNCHANGED <<limVars, cfgVars, events, session_id, max_iters, iteration, result,
                   thr, recent>>

\* Lines 116-138: self.llm.decide raises e.
PrimaryRaises(e) ==
    /\ pc = "decide"
    /\ hist' = [hist EXCEPT !.primary = @ + 1, !.error = e,
                            !.asked = Append(@, Ask("primary", hist.request, FALSE))]
    /\ IF CanFallback(fallback_llm, e)
       THEN /\ events' = Append(events,
                   Event(session_id, "agent",
                         "Primary LLM failed (" \o Join(e) \o "); falling back to local stub.",
                         NoMeta))
            /\ steps' = Append(steps, Step("llm_fallback", "", Join(e), EmptyArgs, 0))
            /\ pc' = "fallback"
            /\ UNCHANGED result
       ELSE Terminate("agent", "LLM decision failed: " \o Join(e), NoMeta,
                      Append(steps, Step("llm_error", "", Join(e), EmptyArgs, 0)))
    /\ UNCHANGED <<limVars, cfgVars, session_id, max_iters, iteration, llm_resp, args,
                   thr, recent>>

\* Lines 128-133: self.fallback_llm.decide returns r.
FallbackReturns(r) ==
    /\ pc = "fallback"
    /\ Decided(r, "fallback")
    /\ UNCHANGED <<limVars, cfgVars, events, session_id, max_iters, iteration, result,
                   thr, recent>>

\* Lines 128-133: self.fallback_llm.decide raises e, outside of any try.
FallbackRaises(e) ==
    /\ pc = "fallback"
    /\ hist' = [hist EXCEPT !.fallback = @ + 1,
                            !.asked = Append(@,
                                Ask("fallback",
                                    FallbackRequest(hist.request, events, session_id),
                                    FALSE))]
    /\ Propagate(Join(e))
    /\ UNCHANGED <<limVars, cfgVars, events, session_id, max_iters, iteration, steps,
                   llm_resp, args, thr, recent>>

\* Lines 157-176: a final answer, an empty decision, an unknown tool, or on.
\* The request of the iteration is not used from here on.
Dispatch ==
    /\ pc = "dispatch"
    /\ IF Truthy(llm_resp.final_text)
       THEN Terminate("llm", llm_resp.final_text.s, NoMeta,
                      Append(steps, Step("final", "", llm_resp.final_text.s, EmptyArgs, 0)))
       ELSE IF ~llm_resp.has_tool_call
       THEN Terminate("agent", "LLM returned neither a tool call nor final text. Stopping.",
                      NoMeta,
                      Append(steps, Step("error", "",
                             "LLM returned neither a tool call nor final text. Stopping.",
                             EmptyArgs, 0)))
       ELSE IF ~KnownTool(llm_resp.tool_name)
       THEN Terminate("agent", "Unknown tool requested: " \o llm_resp.tool_name,
                      RequestedArgs(args),
                      Append(steps, Step("error", llm_resp.tool_name,
                             "Unknown tool requested: " \o llm_resp.tool_name,
                             EmptyArgs, 0)))
       ELSE /\ pc' = "safety"
            /\ UNCHANGED <<events, steps, result>>
    /\ hist' = RequestOver(hist)
    /\ UNCHANGED <<limVars, cfgVars, session_id, max_iters, iteration, llm_resp, args,
                   thr, recent>>


\* tool_name == "confirm_booking" and not args.get("user_approved", False)
SafetyBlocked(tool, a) ==
    tool = "confirm_booking" /\ ~Truthy(Get(a, "user_approved", PyBool(FALSE)))

SafetyGateMutantChargesQuota ==
    /\ pc = "safety"
    /\ IF SafetyBlocked(llm_resp.tool_name, args)
       THEN /\ Terminate("agent", "Blocked confirm_booking: requires user_approved=true.",
                         RequestedArgs(args),
                         Append(steps, Step("blocked", llm_resp.tool_name,
                                "Blocked confirm_booking: requires user_approved=true.",
                                EmptyArgs, 0)))
            /\ calls' = CallsPut(calls, Key(session_id, llm_resp.tool_name),
                                 Append(CallsGet(calls, Key(session_id, llm_resp.tool_name)),
                                        now))
            /\ UNCHANGED <<now, lastCheck, admitted>>
       ELSE /\ pc' = "validate"
            /\ UNCHANGED <<limVars, events, steps, result>>
    /\ UNCHANGED <<cfgVars, session_id, max_iters, iteration, llm_resp, args,
                   hist, thr, recent>>

SafetyGateMutantSkipsValidation ==
    /\ pc = "safety"
    /\ IF SafetyBlocked(llm_resp.tool_name, args)
       THEN Terminate("agent", "Blocked confirm_booking: requires user_approved=true.",
                      RequestedArgs(args),
                      Append(steps, Step("blocked", llm_resp.tool_name,
                             "Blocked confirm_booking: requires user_approved=true.",
                             EmptyArgs, 0)))
       ELSE /\ pc' = "rate"
            /\ UNCHANGED <<events, steps, result>>
    /\ UNCHANGED <<limVars, cfgVars, session_id, max_iters, iteration, llm_resp, args,
                   hist, thr, recent>>

\* Lines 178-183: the safety gate.
SafetyGate ==
    /\ pc = "safety"
    /\ IF SafetyBlocked(llm_resp.tool_name, args)
       THEN Terminate("agent", "Blocked confirm_booking: requires user_approved=true.",
                      RequestedArgs(args),
                      Append(steps, Step("blocked", llm_resp.tool_name,
                             "Blocked confirm_booking: requires user_approved=true.",
                             EmptyArgs, 0)))
       ELSE /\ pc' = "validate"
            /\ UNCHANGED <<events, steps, result>>
    /\ UNCHANGED <<limVars, cfgVars, session_id, max_iters, iteration, llm_resp, args,
                   hist, thr, recent>>

\* The list steps after the mapping its last llm_result entry refers to (the
\* very object args) was rewritten in place to a.
Rewritten(trace, a) ==
    [i \in DOMAIN trace |->
        IF i = Len(trace) /\ trace[i].type = "llm_result"
        THEN [trace[i] EXCEPT !.args = a] ELSE trace[i]]

\* Lines 185-191: validation of the search tools' arguments.
Validate ==
    /\ pc = "validate"
    /\ IF llm_resp.tool_name \in SearchTools
       THEN LET v == ValidateFlightSearchArgs(args)
                msg == "Blocked " \o llm_resp.tool_name \o ": " \o v.error
            IN /\ args' = v.args
               /\ llm_resp' = [llm_resp EXCEPT !.arguments = v.args]
               /\ IF v.error # ""
                  THEN Terminate("agent", msg, RequestedArgs(v.args),
                                 Append(Rewritten(steps, v.args),
                                        Step("blocked", llm_resp.tool_name, msg,
                                             EmptyArgs, 0)))
                  ELSE /\ steps' = Rewritten(steps, v.args)
                       /\ pc' = "rate"
                       /\ UNCHANGED <<events, result>>
       ELSE /\ pc' = "rate"
            /\ UNCHANGED <<events, steps, result, args, llm_resp>>
    /\ UNCHANGED <<limVars, cfgVars, session_id, max_iters, iteration, hist, thr, recent>>

RateLimitedStepMutantNoRetryAfter(tool, d) == Step("rate_limited", tool, "", EmptyArgs, 0)

\* Lines 201-207: the trace entry of a rejection d of the limiter.
RateLimitedStep(tool, d) == Step("rate_limited", tool, "", EmptyArgs, d.retry_after_seconds)

\* Lines 193-209: the rate limit of the tool, if it declares one.  An exception
\* of allow leaves run.
RateCheck ==
    /\ pc = "rate"
    /\ IF HasRateLimit(llm_resp.tool_name)
       THEN LET d == Allow(calls, session_id, llm_resp.tool_name, rule, now)
                msg == "Rate limit exceeded for tool=" \o llm_resp.tool_name \o ". Retry in ~"
                       \o ToString(d.retry_after_seconds) \o "s or use a new session_id."
            IN /\ DoAllow(session_id, llm_resp.tool_name, rule)
               /\ hist' = [hist EXCEPT !.checks = Append(@,
                               [iteration |-> iteration, tool |-> llm_resp.tool_name,
                                outcome |-> d.outcome, allowed |-> d.allowed,
                                retry_after_seconds |-> d.retry_after_seconds])]
               /\ IF d.outcome = "raise"
                  THEN /\ Propagate("ValueError")
                       /\ UNCHANGED <<events, steps>>
                  ELSE IF ~d.allowed
                  THEN Terminate("agent", msg, NoMeta,
                                 Append(steps, RateLimitedStep(llm_resp.tool_name, d)))
                  ELSE /\ pc' = "exec"
                       /\ UNCHANGED <<events, steps, result>>
       ELSE /\ pc' = "exec"
            /\ UNCHANGED <<calls, lastCheck, admitted, events, steps, result, hist>>
    /\ UNCHANGED <<now, cfgVars, session_id, max_iters, iteration, llm_resp, args,
                   thr, recent>>

\* A call of a handler: the tool, the arguments handed over, whether it
\* returned, and how many rows the log of the session held when it was called.
Invocation(tool, a, ok) ==
    [tool |-> tool, args |-> a, ok |-> ok, iteration |-> iteration,
     at |-> Len(events)]

AuditMetaMutantAsRequested(tool, a) == ToolArgs(tool, hist.requested)

\* Line 215: meta={"tool_name": tool_name, "tool_args": args}
AuditMeta(tool, a) == ToolArgs(tool, a)

\* Lines 211-216: the audit event of the call that is about to be made.
Audit ==
    /\ pc = "exec"
    /\ events' = Append(events,
                        Event(session_id, "llm", "Calling tool: " \o llm_resp.tool_name,
                              AuditMeta(llm_resp.tool_name, args)))
    /\ hist' = [hist EXCEPT !.audits = Append(@, [iteration |-> iteration,
                                                   at |-> Len(events) + 1])]
    /\ pc' = "call"
    /\ UNCHANGED <<limVars, cfgVars, session_id, max_iters, iteration, steps, llm_resp,
                   args, result, thr, recent>>

\* Lines 218-219 and 226-232: the handler returns, its result is recorded, and
\* the loop goes on.
ExecReturns ==
    /\ pc = "call"
    /\ events' = Append(events,
                        Event(session_id, "tool", llm_resp.tool_name \o " returned result",
                              ToolResult(llm_resp.tool_name)))
    /\ steps' = Append(steps, Step("tool_result", llm_resp.tool_name, "", EmptyArgs, 0))
    /\ hist' = [hist EXCEPT !.handler = Append(@, Invocation(llm_resp.tool_name, args, TRUE))]
    /\ pc' = "loop"
    /\ UNCHANGED <<limVars, cfgVars, session_id, max_iters, iteration, llm_resp, args,
                   result, thr, recent>>

ExecRaisesMutantGoesOn ==
    /\ pc = "call"
    /\ hist' = [hist EXCEPT !.handler = Append(@, Invocation(llm_resp.tool_name, args, FALSE))]
    /\ LET msg == "Tool execution failed: " \o llm_resp.tool_name \o ": boom"
       IN /\ events' = Append(events, Event(session_id, "agent", msg, NoMeta))
          /\ steps' = Append(steps, Step("tool_error", llm_resp.tool_name, "boom",
                                         EmptyArgs, 0))
          /\ pc' = "loop"
    /\ UNCHANGED <<limVars, cfgVars, session_id, max_iters, iteration, llm_resp, args,
                   result, thr, recent>>

\* Lines 218-224: the handler raises.
ExecRaises ==
    /\ pc = "call"
    /\ hist' = [hist EXCEPT !.handler = Append(@, Invocation(llm_resp.tool_name, args, FALSE))]
    /\ LET msg == "Tool execution failed: " \o llm_resp.tool_name \o ": boom"
       IN /\ events' = Append(events, Event(session_id, "agent", msg, NoMeta))
          /\ steps' = Append(steps, Step("tool_error", llm_resp.tool_name, "boom",
                                         EmptyArgs, 0))
          /\ result' = [kind |-> "return", final_text |-> msg]
          /\ pc' = "done"
    /\ UNCHANGED <<limVars, cfgVars, session_id, max_iters, iteration, llm_resp, args,
                   thr, recent>>

\* time.time() moves on while run waits for the oracle, its slowest blocking
\* call; run's own statements between two such waits take less than a tick.
Tick ==
    /\ pc = "decide"
    /\ now < MaxRunTime
    /\ now' = now + 1
    /\ UNCHANGED <<calls, lastCheck, admitted, cfgVars, events, runVars, thr, recent>>

NoThreads == [t \in {} |-> 0]

Init ==
    /\ calls = [k \in {} |-> <<>>]
    /\ admitted = [k \in {} |-> <<>>]
    /\ lastCheck = NoCheck
    /\ now = 0
    /\ events = <<>>
    /\ rule \in RunRules
    /\ fallback_llm \in BOOLEAN
    /\ IdleRun
    /\ thr = NoThreads
    /\ recent = NoQuery

Next ==
    \/ \E s \in RunSessions, m \in 0..MaxIters : StartRun(s, m)
    \/ BeginIteration
    \/ Exhausted
    \/ \E r \in Decisions : PrimaryReturns(r)
    \/ \E e \in PrimaryErrors : PrimaryRaises(e)
    \/ \E r \in FallbackDecisions : FallbackReturns(r)
    \/ \E e \in FallbackErrors : FallbackRaises(e)
    \/ Dispatch
    \/ SafetyGate
    \/ Validate
    \/ RateCheck
    \/ Audit
    \/ ExecReturns
    \/ ExecRaises
    \/ Tick

Spec == Init /\ [][Next]_vars


(***************************************************************************)
(* Calls of run one after the other in one session, on one agent: the log  *)
(* and the limiter live on from run to run.  Time is followed more closely *)
(* than above: it also passes between the return of allow and the reading  *)
(* of the clock by the add_event of the audit row, which the call of the   *)
(* handler follows.                                                        *)
(***************************************************************************)
\* The calls of run made so far for session s: each begins with a user row.
Runs(s) == Len(SelectSeq(events, LAMBDA e : e.session_id = s /\ e.role = "user"))

SeqDecisions ==
    {LLMResponse(TRUE, c, PyNone) :
        c \in {ToolCall("hold_booking", [option_id |-> PyStr("PL-102")]),
               ToolCall("confirm_booking", Hold),
               ToolCall("search_flights_priceline",
                        Put(Route, "depart_date", IsoDate(Today - 1))),
               ToolCall("no_such_tool", EmptyArgs)}} \cup
    {LLMResponse(FALSE, NoToolCall, PyStr("done")),
     LLMResponse(FALSE, NoToolCall, PyNone)}

SeqFallbackDecisions ==
    {LLMResponse(TRUE, ToolCall("hold_booking", [option_id |-> PyStr("PL-102")]), PyNone),
     LLMResponse(FALSE, NoToolCall, PyStr("done"))}

SeqErrors == {MsgGroq, MsgCode}

\* Lines 87-90: the next call of run on the same agent, for one iteration.
SeqStart(s) ==
    /\ Runs(s) < MaxRuns
    /\ StartRun(s, 1)

\* The caller has the AgentResult, or the exception, of the call of run.
Return ==
    /\ pc \in {"done", "raised"}
    /\ pc' = "idle"
    /\ session_id' = ""
    /\ max_iters' = 0
    /\ iteration' = 0
    /\ steps' = <<>>
    /\ llm_resp' = NoResp
    /\ args' = EmptyArgs
    /\ result' = NoResult
    /\ hist' = NoHist
    /\ UNCHANGED <<limVars, cfgVars, events, thr, recent>>

\* time.time() moves on while run waits for the oracle, and between the return
\* of allow and the insertion of the audit row (a connection to the database
\* is opened for it).
SeqTick ==
    /\ pc \in {"decide", "exec"}
    /\ now < MaxSeqTime
    /\ now' = now + 1
    /\ UNCHANGED <<calls, lastCheck, admitted, cfgVars, events, runVars, thr, recent>>

SeqNext ==
    \/ \E s \in RunSessions : SeqStart(s)
    \/ Return
    \/ BeginIteration
    \/ Exhausted
    \/ \E r \in SeqDecisions : PrimaryReturns(r)
    \/ \E e \in SeqErrors : PrimaryRaises(e)
    \/ \E r \in SeqFallbackDecisions : FallbackReturns(r)
    \/ \E e \in FallbackErrors : FallbackRaises(e)
    \/ Dispatch
    \/ SafetyGate
    \/ Validate
    \/ RateCheck
    \/ Audit
    \/ ExecReturns
    \/ ExecRaises
    \/ SeqTick

SeqSpec == Init /\ [][SeqNext]_vars


(***************************************************************************)
(* The rate limiter on its own: any sequence of calls of allow, for any    *)
(* session and tool under the rule of the registry, as time goes by.       *)
(***************************************************************************)
LimTools == {"hold_booking"}

LimInit ==
    /\ calls = [k \in {} |-> <<>>]
    /\ admitted = [k \in {} |-> <<>>]
    /\ lastCheck = NoCheck
    /\ now = 0
    /\ events = <<>>
    /\ rule \in Rules
    /\ fallback_llm = FALSE
    /\ IdleRun
    /\ thr = NoThreads
    /\ recent = NoQuery

LimTick ==
    /\ now < MaxTime
    /\ now' = now + 1
    /\ UNCHANGED <<calls, lastCheck, admitted, cfgVars, events, runVars, thr, recent>>

\* One call of allow(s, tool, rule).
LimCheck(s, tool) ==
    /\ DoAllow(s, tool, rule)
    /\ UNCHANGED <<now, cfgVars, events, runVars, thr, recent>>

LimNext ==
    \/ LimTick
    \/ \E s \in Sessions, tool \in LimTools : LimCheck(s, tool)

LimSpec == LimInit /\ [][LimNext]_vars

(***************************************************************************)
(* The event log on its own: rows are added for any session, each with the *)
(* reading of time.time() at that moment (the wall clock, which the system *)
(* can set back between two readings), and get_recent is called.           *)
(***************************************************************************)
MemInit ==
    /\ calls = [k \in {} |-> <<>>]
    /\ admitted = [k \in {} |-> <<>>]
    /\ lastCheck = NoCheck
    /\ now = 0
    /\ events = <<>>
    /\ rule = RateLimit(MaxCalls, MaxWindow)
    /\ fallback_llm = FALSE
    /\ IdleRun
    /\ thr = NoThreads
    /\ recent = NoQuery

\* The clock is at t.
MemClock(t) ==
    /\ now # t
    /\ now' = t
    /\ UNCHANGED <<calls, lastCheck, admitted, cfgVars, events, runVars, thr, recent>>

\* add_event(s, "user", content): the row gets ts = time.time().
MemAdd(s) ==
    /\ Len(events) < MaxRows
    /\ events' = Append(events, Event(s, "user", "e" \o ToString(Len(events) + 1), NoMeta))
    /\ recent' = NoQuery
    /\ UNCHANGED <<limVars, cfgVars, runVars, thr>>

\* get_recent(s, limit)
MemQuery(s, limit) ==
    /\ recent' = [asked |-> TRUE, session_id |-> s, limit |-> limit,
                  rows |-> GetRecent(events, s, limit)]
    /\ UNCHANGED <<limVars, cfgVars, events, runVars, thr>>

MemNext ==
    \/ \E t \in 0..MaxStamp : MemClock(t)
    \/ \E s \in Sessions : MemAdd(s)
    \/ \E s \in Sessions, limit \in 0..MaxLimit : MemQuery(s, limit)

MemSpec == MemInit /\ [][MemNext]_vars

(***************************************************************************)
(* The rate limiter called for session ids and tool names that contain the *)
(* separator of its keys: session_id is any string of the request, and a   *)
(* Tool can be given any name.                                             *)
(***************************************************************************)
KeyPairs == {<<"s1", "hold_booking">>, <<"s1", "hold:booking">>, <<"s1:hold", "booking">>}

KeyNext ==
    \/ LimTick
    \/ \E p \in KeyPairs : LimCheck(p[1], p[2])

KeySpec == LimInit /\ [][KeyNext]_vars

(***************************************************************************)
(* Concurrent calls of allow on the shared limiter: run_agent is a plain   *)
(* def endpoint, which the server runs on worker threads, and allow takes  *)
(* no lock.  A thread can be preempted between any two statements; the     *)
(* statements that touch shared state are the read of the clock (line 27), *)
(* the read of self._calls (line 28) and the store (line 32 or 37).        *)
(***************************************************************************)
Threads == 1..MaxThreads

ThreadIdle == [at |-> "idle", key |-> "", now |-> 0, calls |-> <<>>]

ConcInit ==
    /\ calls = [k \in {} |-> <<>>]
    /\ admitted = [k \in {} |-> <<>>]
    /\ lastCheck = NoCheck
    /\ now = 0
    /\ events = <<>>
    /\ rule \in Rules
    /\ fallback_llm = FALSE
    /\ IdleRun
    /\ thr = [t \in Threads |-> ThreadIdle]
    /\ recent = NoQuery

ConcTick ==
    /\ now < MaxRunTime
    /\ now' = now + 1
    /\ UNCHANGED <<calls, lastCheck, admitted, cfgVars, events, runVars, thr, recent>>

\* Lines 26-27: key and now.
ThreadEnter(t, s, tool) ==
    /\ thr[t].at = "idle"
    /\ thr' = [thr EXCEPT ![t] = [at |-> "entered", key |-> Key(s, tool), now |-> now,
                                  calls |-> <<>>]]
    /\ UNCHANGED <<limVars, cfgVars, events, runVars, recent>>

\* Line 28: calls = self._calls.get(key, [])
ThreadGet(t) ==
    /\ thr[t].at = "entered"
    /\ thr' = [thr EXCEPT ![t].at = "read", ![t].calls = CallsGet(calls, thr[t].key)]
    /\ UNCHANGED <<limVars, cfgVars, events, runVars, recent>>

\* Lines 29-38: the pruning and the decision on the thread's own list, and the
\* store of that list under the key.
ThreadStore(t) ==
    /\ thr[t].at = "read"
    /\ LET me == thr[t]
           d == AllowDecision(Prune(me.calls, me.now - WindowTicks(rule)), rule, me.now)
       IN /\ calls' = CallsPut(calls, me.key, d.calls)
          /\ lastCheck' = [key |-> me.key, now |-> me.now, outcome |-> d.outcome,
                           allowed |-> d.allowed,
                           retry_after_seconds |-> d.retry_after_seconds,
                           before |-> me.calls,
                           granted |-> CallsGet(admitted, me.key)]
          /\ admitted' = IF d.allowed
                         THEN CallsPut(admitted, me.key,
                                       Append(CallsGet(admitted, me.key), me.now))
                         ELSE admitted
    /\ thr' = [thr EXCEPT ![t] = ThreadIdle]
    /\ UNCHANGED <<now, cfgVars, events, runVars, recent>>

ConcNext ==
    \/ ConcTick
    \/ \E t \in Threads, s \in Sessions, tool \in LimTools : ThreadEnter(t, s, tool)
    \/ \E t \in Threads : ThreadGet(t)
    \/ \E t \in Threads : ThreadStore(t)

ConcSpec == ConcInit /\ [][ConcNext]_vars


(***************************************************************************)
(* Properties of the rate limiter.                                         *)
(***************************************************************************)
Checked == lastCheck.outcome # "none"

\* The timestamp of the oldest of the n calls admitted last before the check.
OldestOfLast(n) == lastCheck.granted[Len(lastCheck.granted) - n + 1]

\* C6: under a rule with max_calls = N >= 1 and window_seconds = W, a check of
\* a key that follows N admitted checks of that key is rejected, with
\* retry_after_seconds >= 1, when it is made within W seconds of the oldest of
\* these N admitted calls, and is admitted when that call's window has passed.
C6_SlidingWindow ==
    (Checked /\ rule.max_calls >= 1 /\ Len(lastCheck.granted) >= rule.max_calls) =>
        IF lastCheck.now - OldestOfLast(rule.max_calls) <= WindowTicks(rule)
        THEN /\ lastCheck.outcome = "return"
             /\ ~lastCheck.allowed
             /\ lastCheck.retry_after_seconds >= 1
        ELSE /\ lastCheck.outcome = "return"
             /\ lastCheck.allowed

\* A check was admitted although max_calls calls had been admitted before it:
\* the window of the oldest of them had passed.
C6_Witness ==
    /\ Checked
    /\ rule.max_calls = 2
    /\ Len(lastCheck.granted) >= 2
    /\ lastCheck.allowed
    /\ lastCheck.now - OldestOfLast(2) > WindowTicks(rule)
    /\ \E i \in DOMAIN lastCheck.before : lastCheck.before[i] >= lastCheck.now - WindowTicks(rule)

\* C7 as stated: at all times no stored window holds a timestamp older than
\* now - window_seconds.
C7_NeverStale ==
    \A k \in DOMAIN calls : \A i \in DOMAIN calls[k] :
        calls[k][i] >= now - WindowTicks(rule)

\* C7, amended: the window stored by a check of a key holds no timestamp older
\* than the time of that check minus window_seconds (the windows are pruned by
\* the checks only, each check pruning the window of its own key).
C7_PrunedOnCheck ==
    Checked =>
        \A i \in DOMAIN calls[lastCheck.key] :
            calls[lastCheck.key][i] >= lastCheck.now - WindowTicks(rule)

\* A check found a timestamp older than its window in the stored list.
C7_Witness ==
    /\ Checked
    /\ \E i \in DOMAIN lastCheck.before :
           lastCheck.before[i] < lastCheck.now - WindowTicks(rule)

\* C8: for any interleaving of concurrent checks, no admitted timestamp that is
\* still inside the window is missing from the stored window of its key, and
\* no key has more than max_calls admitted calls within window_seconds.
C8_ConcurrentSafe ==
    \A k \in DOMAIN admitted :
        /\ \A i \in DOMAIN admitted[k] :
               admitted[k][i] >= now - WindowTicks(rule) =>
                   \E j \in DOMAIN calls[k] : calls[k][j] = admitted[k][i]
        /\ \A i \in DOMAIN admitted[k] :
               Cardinality({j \in DOMAIN admitted[k] :
                               /\ admitted[k][j] >= admitted[k][i]
                               /\ admitted[k][j] <= admitted[k][i] + WindowTicks(rule)})
                   <= rule.max_calls


(***************************************************************************)
(* Properties of Agent.run.                                                *)
(***************************************************************************)
Terminal == pc \in {"done", "raised"}

LastStep == steps[Len(steps)]

\* The handler invocations of the run that called the handler of tool.
InvocationsOf(tool) == {i \in DOMAIN hist.handler : hist.handler[i].tool = tool}

\* C1: the handler of confirm_booking is never invoked with arguments that
\* lack a user_approved flag that is explicitly true.
C1_ApprovalRequired ==
    \A i \in InvocationsOf("confirm_booking") :
        /\ "user_approved" \in DOMAIN hist.handler[i].args
        /\ hist.handler[i].args["user_approved"] = PyBool(TRUE)

\* C2: in a run whose caller supplies a session id and a goal only, no
\* decision of the planner leads to an invocation of the handler of
\* confirm_booking.
C2_PlannerCannotApprove == InvocationsOf("confirm_booking") = {}

\* C3: no exception leaves run.
C3_NeverPropagates == pc # "raised" /\ result.kind # "raise"

\* The stages of an iteration, counted down to the end of the iteration.
StageRank ==
    CASE pc = "decide" -> 9
      [] pc = "fallback" -> 8
      [] pc = "dispatch" -> 7
      [] pc = "safety" -> 6
      [] pc = "validate" -> 5
      [] pc = "rate" -> 4
      [] pc = "exec" -> 3
      [] pc = "call" -> 2
      [] pc = "loop" -> 1
      [] OTHER -> 0

\* A bound on the number of steps run has left before it is terminal.
Rank == 10 * (max_iters - iteration) + StageRank

\* C4: run takes at most max_iters iterations: its loop counter, the number
\* of decision requests to the primary oracle and the number of handler
\* invocations never exceed max_iters, and every step of run brings it closer
\* to its end (Rank, at most 10 * max_iters + 1 when run starts and never
\* negative, decreases), whatever the oracles and the handlers do.
C4_Terminates ==
    [][/\ iteration' <= max_iters'
       /\ hist'.primary <= max_iters'
       /\ Len(hist'.handler) <= max_iters'
       /\ Rank' >= 0
       /\ (pc # "idle" /\ pc' # pc) => Rank' < Rank
       /\ (pc # "idle" /\ pc' = pc) => UNCHANGED runVars]_vars

\* The iteration budget was spent: max_iters decisions, max_iters handler calls.
C4_Witness ==
    /\ pc = "done"
    /\ max_iters = 2
    /\ hist.primary = 2
    /\ Len(hist.handler) = 2
    /\ steps # <<>> /\ LastStep.type = "tool_result"

\* C5: a run that is over has returned an AgentResult whose final_text is not
\* empty.
C5_ResultWithText ==
    Terminal => (result.kind = "return" /\ result.final_text # "")

\* The messages of the oracle errors that contain a rate-limit indicator.
RateLimitMessages == {MsgGroq, MsgUpper}

PrimaryRaised == pc = "decide" /\ pc' \notin {"decide", "dispatch"}

\* C10: when the primary oracle raises and no fallback is configured or the
\* message has no rate-limit indicator, the same step ends the run with an
\* llm_error entry and the diagnostic text; the fallback oracle is not asked,
\* and a run that is over asks no oracle and invokes no handler.
C10_HardStop ==
    [][/\ (PrimaryRaised /\ ~(fallback_llm /\ hist'.error \in RateLimitMessages)) =>
             /\ pc' = "done"
             /\ steps' = Append(steps, LastStep')
             /\ LastStep'.type = "llm_error"
             /\ result' = [kind |-> "return",
                           final_text |-> "LLM decision failed: " \o Join(hist'.error)]
             /\ hist'.fallback = hist.fallback
             /\ hist'.handler = hist.handler
             /\ hist'.primary = hist.primary + 1
       /\ Terminal => (pc' = pc /\ hist' = hist /\ steps' = steps /\ result' = result)]_vars

\* A fallback is configured, the primary's error is not a rate-limit error.
C10_Witness ==
    /\ pc = "done"
    /\ fallback_llm
    /\ hist.error = MsgThrottled
    /\ LastStep.type = "llm_error"
    /\ hist.fallback = 0

\* The llm_fallback entries of the trace.
FallbackSteps == {i \in DOMAIN steps : steps[i].type = "llm_fallback"}

\* C11: in an iteration the fallback oracle is asked at most once, only after
\* the primary oracle's request of that iteration failed, and with the same
\* goal, history, catalog and retrieval context as that failed request; over
\* the run it is asked once per llm_fallback entry at most; and after a failed
\* retry no oracle is asked again: the run is over.
C11_SingleRetry ==
    /\ Len(hist.asked) <= 2
    /\ hist.fallback <= Cardinality(FallbackSteps)
    /\ hist.fallback <= hist.primary
    /\ \A i \in DOMAIN hist.asked :
          /\ hist.asked[i].iteration = iteration
          /\ hist.asked[i].oracle = (IF i = 1 THEN "primary" ELSE "fallback")
          /\ hist.asked[i].oracle = "fallback" =>
                /\ ~hist.asked[1].ok
                /\ hist.asked[i].request = hist.asked[1].request
                /\ hist.asked[i].request.user_goal = Goal
                /\ hist.asked[i].request.tools = ToolNames
                /\ hist.asked[i].request.rag_context = RagRetrieve(Goal)
          /\ (hist.asked[i].oracle = "fallback" /\ ~hist.asked[i].ok) =>
                (pc = "raised" /\ i = Len(hist.asked))
    /\ pc = "fallback" => (Len(hist.asked) = 1 /\ ~hist.asked[1].ok)

\* In the second iteration, after a tool's result entered the log, the primary
\* oracle failed and the retry against the fallback oracle failed too.
C11_Witness ==
    /\ pc = "raised"
    /\ iteration = 2
    /\ Len(hist.asked) = 2
    /\ hist.asked[2].oracle = "fallback"
    /\ ~hist.asked[2].ok
    /\ Len(hist.asked[2].request.memory_events) = 3
    /\ Len(GetRecent(events, session_id, RecentLimit)) = 4

\* How the loop reads a decision: it is an action request when it carries a
\* tool call and no final text (a final text, if any, is honoured first).
IsActionRequest(r) == r.has_tool_call /\ ~Truthy(r.final_text)

\* The handler invocations and the limiter checks of the current iteration.
InvokedNow == {i \in DOMAIN hist.handler : hist.handler[i].iteration = iteration}
CheckedNow == {i \in DOMAIN hist.checks : hist.checks[i].iteration = iteration}

\* The decision in hand has been dispatched on.
Dispatched ==
    pc \in {"safety", "validate", "rate", "exec", "call", "loop", "done", "raised"}

\* C12: once an action request naming an action that is not in the registry
\* has been dispatched on, the run is over: it returned, the last trace entry
\* is an error entry naming that action, no handler was invoked and the rate
\* limiter was not consulted for that decision (and, the run being over,
\* no handler is invoked later).
C12_UnknownAction ==
    (Dispatched /\ iteration > 0 /\ hist.via # "none" /\ IsActionRequest(llm_resp)
     /\ llm_resp.tool_name \notin ToolNames) =>
        /\ pc = "done"
        /\ result = [kind |-> "return",
                     final_text |-> "Unknown tool requested: " \o llm_resp.tool_name]
        /\ LastStep.type = "error"
        /\ LastStep.tool = llm_resp.tool_name
        /\ LastStep.text = "Unknown tool requested: " \o llm_resp.tool_name
        /\ LastStep.iteration = iteration
        /\ InvokedNow = {}
        /\ CheckedNow = {}

\* The second decision of a run named an unknown action, after the first one
\* had passed the limiter and had its handler invoked.
C12_Witness ==
    /\ pc = "done"
    /\ iteration = 2
    /\ llm_resp.tool_name = "no_such_tool"
    /\ LastStep.type = "error"
    /\ Len(hist.handler) = 1
    /\ Len(hist.checks) = 1

\* The value is the text of a date, plain or as a timestamp with time zone.
DateText(v) == v.ty = "str" /\ v.form \in {"date", "datetimeZ", "padded"}

\* The field is given (it has a true value) but is not the text of a date.
Unparseable(a, k) == k \in DOMAIN a /\ Truthy(a[k]) /\ ~DateText(a[k])

\* The field is not given.
Missing(a, k) == k \notin DOMAIN a \/ ~Truthy(a[k])

\* The decision in hand is a request of a search action, validated by now.
SearchValidated ==
    /\ pc \in {"rate", "exec", "call", "loop", "done", "raised"}
    /\ iteration > 0
    /\ hist.via # "none"
    /\ IsActionRequest(llm_resp)
    /\ llm_resp.tool_name \in SearchTools

\* The required date as requested is the text of a date that is not past.
DepartGood ==
    /\ ~Missing(hist.requested, "depart_date")
    /\ DateText(hist.requested["depart_date"])
    /\ hist.requested["depart_date"].d >= Today

\* The run was blocked in the current iteration.
BlockedNow == pc = "done" /\ LastStep.type = "blocked" /\ LastStep.iteration = iteration

\* The handling of the decision in hand is over.
Handled == pc \in {"loop", "done", "raised"}

\* The limiter stood in the way of the decision in hand: it rejected or raised.
LimiterRefused ==
    \E i \in CheckedNow : hist.checks[i].outcome = "raise" \/ ~hist.checks[i].allowed

\* C13, first half: a search request whose depart_date is missing or is not
\* the text of a date ends the run with a blocked entry; no handler is invoked.
RequiredBlocks ==
    (SearchValidated /\ (Missing(hist.requested, "depart_date")
                          \/ Unparseable(hist.requested, "depart_date"))) =>
        (BlockedNow /\ InvokedNow = {} /\ CheckedNow = {}
         /\ LastStep.tool = llm_resp.tool_name)

\* C13 as stated: ... and a search request with a good depart_date whose
\* return_date is not the text of a date never blocks the run; the handler is
\* invoked, and the arguments it receives have no return_date.
C13_ValidationAsymmetry ==
    /\ RequiredBlocks
    /\ (SearchValidated /\ DepartGood /\ Unparseable(hist.requested, "return_date")) =>
          /\ ~BlockedNow
          /\ Handled => InvokedNow # {}
          /\ \A i \in InvokedNow : "return_date" \notin DOMAIN hist.handler[i].args

\* C13, amended: ... validation never blocks such a request: it goes on to the
\* rate check with return_date removed from the arguments, and unless the
\* limiter refuses it the handler is invoked, with arguments without
\* return_date.
C13_OptionalNeverBlocks ==
    /\ RequiredBlocks
    /\ (SearchValidated /\ DepartGood /\ Unparseable(hist.requested, "return_date")) =>
          /\ ~BlockedNow
          /\ "return_date" \notin DOMAIN args
          /\ Handled => (InvokedNow # {} <=> ~LimiterRefused)
          /\ \A i \in InvokedNow : "return_date" \notin DOMAIN hist.handler[i].args

\* The handler of a search action was invoked without the return_date
\* "next friday" of the request.
C13_Witness ==
    /\ pc = "loop"
    /\ SearchValidated
    /\ Get(hist.requested, "return_date", PyNone) = PyStr("next friday")
    /\ InvokedNow # {}
    /\ \A i \in InvokedNow : "return_date" \notin DOMAIN hist.handler[i].args

\* The required date as requested is the text of a date before today.
DepartPast ==
    /\ ~Missing(hist.requested, "depart_date")
    /\ DateText(hist.requested["depart_date"])
    /\ hist.requested["depart_date"].d < Today

\* The entries of the trace that record a handler call of the current iteration.
HandlerStepsNow ==
    {i \in DOMAIN steps : /\ steps[i].type \in {"tool_result", "tool_error"}
                          /\ steps[i].iteration = iteration}

\* C14: a search request whose depart_date is the text of a date before today
\* ends the run with a blocked entry whose reason, also the final text, names
\* that date and today's date; no handler is invoked for it, and the trace
\* records none.
C14_PastDateBlocked ==
    (SearchValidated /\ DepartPast) =>
        LET reason == "Blocked " \o llm_resp.tool_name \o ": depart_date "
                      \o IsoDate(hist.requested["depart_date"].d).s
                      \o " is in the past (today is " \o IsoDate(Today).s \o ")."
        IN /\ BlockedNow
           /\ LastStep.tool = llm_resp.tool_name
           /\ LastStep.text = reason
           /\ result = [kind |-> "return", final_text |-> reason]
           /\ InvokedNow = {}
           /\ HandlerStepsNow = {}
           /\ CheckedNow = {}

\* The second decision of a run asked for a search departing yesterday, after
\* the first decision's handler had been invoked.
C14_Witness ==
    /\ pc = "done"
    /\ iteration = 2
    /\ SearchValidated
    /\ DepartPast
    /\ LastStep.type = "blocked"
    /\ Len(hist.handler) = 1

\* The field of the request is a full timestamp with a time zone.
IsTimestamp(a, k) == k \in DOMAIN a /\ a[k].ty = "str" /\ a[k].form = "datetimeZ"

\* C15: a search request whose depart_date is a timestamp with time zone (of
\* a day that is not past) is not blocked for it, and leaves validation with
\* the plain date of that timestamp as depart_date; when the handler is
\* invoked for such a request, the depart_date it receives is that plain date;
\* and so is the return_date it receives for a request whose return_date is
\* such a timestamp, not before the depart_date.
C15_TimestampNormalized ==
    SearchValidated =>
      /\ (IsTimestamp(hist.requested, "depart_date") /\ DepartGood) =>
            /\ ~BlockedNow
            /\ args["depart_date"] = IsoDate(hist.requested["depart_date"].d)
      /\ (IsTimestamp(hist.requested, "return_date") /\ DepartGood
          /\ hist.requested["return_date"].d >= hist.requested["depart_date"].d) =>
            /\ "return_date" \in DOMAIN args
            /\ args["return_date"] = IsoDate(hist.requested["return_date"].d)
      /\ \A i \in InvokedNow :
            LET got == hist.handler[i].args
                asked == hist.requested
            IN /\ IsTimestamp(asked, "depart_date") =>
                     /\ "depart_date" \in DOMAIN got
                     /\ got["depart_date"] = IsoDate(asked["depart_date"].d)
                     /\ got["depart_date"].form = "date"
               /\ (IsTimestamp(asked, "return_date") /\ DepartGood
                   /\ asked["return_date"].d >= asked["depart_date"].d) =>
                     /\ "return_date" \in DOMAIN got
                     /\ got["return_date"] = IsoDate(asked["return_date"].d)
                     /\ got["return_date"].form = "date"

\* A search handler was invoked for a request with both dates as timestamps.
C15_Witness ==
    /\ SearchValidated
    /\ InvokedNow # {}
    /\ IsTimestamp(hist.requested, "depart_date")
    /\ IsTimestamp(hist.requested, "return_date")
    /\ \A i \in InvokedNow :
          /\ hist.handler[i].args["depart_date"] = IsoDate(Today + 1)
          /\ hist.handler[i].args["return_date"] = IsoDate(Today + 2)

\* The request has a good depart_date and a return_date that is the text of
\* a date before it.
ReturnBeforeDepart ==
    /\ DepartGood
    /\ ~Missing(hist.requested, "return_date")
    /\ DateText(hist.requested["return_date"])
    /\ hist.requested["return_date"].d < hist.requested["depart_date"].d

\* C16 as stated: a search request whose return_date is a date before its good
\* depart_date is not blocked; the handler is invoked, and the arguments it
\* receives have no return_date.
C16_EarlyReturnDropped ==
    (SearchValidated /\ ReturnBeforeDepart) =>
        /\ ~BlockedNow
        /\ Handled => InvokedNow # {}
        /\ \A i \in InvokedNow : "return_date" \notin DOMAIN hist.handler[i].args

\* C16, amended: validation never blocks such a request: it goes on to the
\* rate check with return_date removed from the arguments and the depart_date
\* kept, and unless the limiter refuses it the handler is invoked, with
\* arguments without return_date.
C16_EarlyReturnNeverBlocks ==
    (SearchValidated /\ ReturnBeforeDepart) =>
        /\ ~BlockedNow
        /\ "return_date" \notin DOMAIN args
        /\ args["depart_date"] = IsoDate(hist.requested["depart_date"].d)
        /\ Handled => (InvokedNow # {} <=> ~LimiterRefused)
        /\ \A i \in InvokedNow :
              /\ "return_date" \notin DOMAIN hist.handler[i].args
              /\ hist.handler[i].args["depart_date"]
                    = IsoDate(hist.requested["depart_date"].d)

\* The handler of a search action was invoked without the return_date of the
\* request, a date before the depart_date.
C16_Witness ==
    /\ pc = "loop"
    /\ SearchValidated
    /\ ReturnBeforeDepart
    /\ InvokedNow # {}
    /\ \A i \in InvokedNow : DOMAIN hist.handler[i].args = DOMAIN Route \cup {"depart_date"}

\* The decision requests the trace records (one llm_prompt entry each).
PromptSteps == {i \in DOMAIN steps : steps[i].type = "llm_prompt"}

\* C17: a check the limiter answered with a rejection is the last thing the
\* run asked of anyone: the run returned in the iteration of the check, at the
\* time of the check, with a rate_limited entry for the tool that carries the
\* retry_after_seconds of the rejection, and with the message that quotes it;
\* no later check, no handler invocation in that iteration, and no oracle
\* request beyond those of the iterations recorded before.
C17_RejectionEndsRun ==
    \A i \in DOMAIN hist.checks :
        (hist.checks[i].outcome = "return" /\ ~hist.checks[i].allowed) =>
            /\ pc = "done"
            /\ i = Len(hist.checks)
            /\ hist.checks[i].iteration = iteration
            /\ hist.checks[i].tool = llm_resp.tool_name
            /\ hist.checks[i].retry_after_seconds = lastCheck.retry_after_seconds
            /\ now = lastCheck.now
            /\ LastStep.type = "rate_limited"
            /\ LastStep.tool = llm_resp.tool_name
            /\ LastStep.n = hist.checks[i].retry_after_seconds
            /\ LastStep.n >= 1
            /\ result = [kind |-> "return",
                         final_text |-> "Rate limit exceeded for tool=" \o llm_resp.tool_name
                                        \o ". Retry in ~" \o ToString(LastStep.n)
                                        \o "s or use a new session_id."]
            /\ InvokedNow = {}
            /\ HandlerStepsNow = {}
            /\ hist.primary = Cardinality(PromptSteps)
            /\ hist.primary = iteration
            /\ Len(hist.handler) = iteration - 1

\* The second action of a run was rejected by the limiter.
C17_Witness ==
    /\ pc = "done"
    /\ iteration = 2
    /\ LastStep.type = "rate_limited"
    /\ Len(hist.checks) = 2
    /\ ~hist.checks[2].allowed
    /\ hist.checks[1].allowed
    /\ Len(hist.handler) = 1

\* The events of the log with the given role.
EventsOf(role) == {i \in DOMAIN events : events[i].role = role}

\* The handler invocations that returned.
Returned == {i \in DOMAIN hist.handler : hist.handler[i].ok}

\* C18: a handler invocation that raised is the last call the run made: the
\* run returned in that iteration with a tool_error entry for the tool and
\* the error as final text; the handler was invoked once in the iteration, no
\* handler and no oracle was called after it, and the log has an action-result
\* event for the invocations that returned only, its last event being the
\* diagnostic of the agent.
C18_HandlerErrorEndsRun ==
    \A i \in DOMAIN hist.handler :
        ~hist.handler[i].ok =>
            /\ pc = "done"
            /\ i = Len(hist.handler)
            /\ hist.handler[i].iteration = iteration
            /\ hist.handler[i].tool = llm_resp.tool_name
            /\ InvokedNow = {i}
            /\ LastStep.type = "tool_error"
            /\ LastStep.tool = llm_resp.tool_name
            /\ LastStep.iteration = iteration
            /\ result = [kind |-> "return",
                         final_text |-> "Tool execution failed: " \o llm_resp.tool_name
                                        \o ": boom"]
            /\ hist.primary = iteration
            /\ hist.primary = Cardinality(PromptSteps)
            /\ hist.fallback <= Cardinality(FallbackSteps)
            /\ Cardinality(EventsOf("tool")) = Cardinality(Returned)
            /\ Cardinality(Returned) = i - 1
            /\ events[Len(events)].role = "agent"
            /\ events[Len(events)].content = result.final_text
            /\ events[Len(events) - 1].meta = ToolArgs(llm_resp.tool_name, hist.handler[i].args)

\* The handler of the second action of a run raised, after the first action's
\* handler had returned.
C18_Witness ==
    /\ pc = "done"
    /\ iteration = 2
    /\ LastStep.type = "tool_error"
    /\ Len(hist.handler) = 2
    /\ hist.handler[1].ok
    /\ ~hist.handler[2].ok
    /\ Cardinality(EventsOf("tool")) = 1

\* The stage of the loop a position of run belongs to: asking the oracles and
\* reading their decision is Deciding, the head of the loop is between two
\* iterations, and a run that is over, by a return or by an exception, is
\* Terminated.
Stage(p) ==
    CASE p \in {"decide", "fallback", "dispatch"} -> "Deciding"
      [] p = "safety" -> "SafetyCheck"
      [] p = "validate" -> "Validating"
      [] p = "rate" -> "RateChecking"
      [] p \in {"exec", "call"} -> "Executing"
      [] p \in {"done", "raised"} -> "Terminated"
      [] OTHER -> "Loop"

\* The handler is invoked in this step.
Invokes == Len(hist'.handler) = Len(hist.handler) + 1

\* C19: a step of run that leaves a stage goes to the next stage in the order
\* Deciding, SafetyCheck, Validating, RateChecking, Executing, or to
\* Terminated; a stage is entered only when the gate of the stage before it
\* let the decision pass; only a handler invocation that returned leads back
\* to the head of the loop, from which alone Deciding is entered again; and a
\* handler is invoked in Executing only.
C19_StageOrder ==
    [][/\ (Stage(pc) = "Deciding" /\ Stage(pc') # "Deciding") =>
             /\ pc = "dispatch" \/ Stage(pc') = "Terminated"
             /\ Stage(pc') \in {"SafetyCheck", "Terminated"}
       /\ Stage(pc) = "SafetyCheck" =>
             /\ Stage(pc') \in {"SafetyCheck", "Validating", "Terminated"}
             /\ Stage(pc') = "Validating" => ~SafetyBlocked(llm_resp.tool_name, args)
       /\ Stage(pc) = "Validating" =>
             /\ Stage(pc') \in {"Validating", "RateChecking", "Terminated"}
             /\ (Stage(pc') = "RateChecking" /\ llm_resp.tool_name \in SearchTools) =>
                    ValidateFlightSearchArgs(args).error = ""
       /\ Stage(pc) = "RateChecking" =>
             /\ Stage(pc') \in {"RateChecking", "Executing", "Terminated"}
             /\ (Stage(pc') = "Executing" /\ HasRateLimit(llm_resp.tool_name)) =>
                    /\ Len(hist'.checks) = Len(hist.checks) + 1
                    /\ hist'.checks[Len(hist'.checks)].allowed
                    /\ hist'.checks[Len(hist'.checks)].iteration = iteration
       /\ Stage(pc) = "Executing" =>
             /\ Stage(pc') \in {"Executing", "Loop", "Terminated"}
             /\ Stage(pc') # "Executing" => Invokes
             /\ Stage(pc') = "Loop" <=> (Invokes /\ hist'.handler[Len(hist'.handler)].ok)
       /\ (Stage(pc') = "Loop" /\ pc # "idle") => Stage(pc) \in {"Executing", "Loop"}
       /\ (Stage(pc') = "Deciding" /\ Stage(pc) # "Deciding") =>
             /\ Stage(pc) = "Loop"
             /\ iteration' = iteration + 1
             /\ iteration > 0 =>
                    /\ LastStep.type = "tool_result"
                    /\ LastStep.iteration = iteration
                    /\ hist.handler[Len(hist.handler)].ok
                    /\ hist.handler[Len(hist.handler)].iteration = iteration
       /\ Stage(pc') = "SafetyCheck" => Stage(pc) \in {"Deciding", "SafetyCheck"}
       /\ Stage(pc') = "Validating" => Stage(pc) \in {"SafetyCheck", "Validating"}
       /\ Stage(pc') = "RateChecking" => Stage(pc) \in {"Validating", "RateChecking"}
       /\ Stage(pc') = "Executing" => Stage(pc) \in {"RateChecking", "Executing"}
       /\ Invokes => (Stage(pc) = "Executing" /\ hist'.handler[Len(hist'.handler)].iteration = iteration)
       /\ Stage(pc) = "Terminated" => pc' = pc]_vars

\* A second decision went through every stage to a handler invocation.
C19_Witness ==
    /\ pc = "loop"
    /\ iteration = 2
    /\ Len(hist.handler) = 2
    /\ hist.handler[2].ok
    /\ hist.handler[2].tool = "confirm_booking"
    /\ Len(hist.checks) = 2

\* C20: when a handler is invoked, the newest row of the log is an audit
\* event appended in the same iteration that records the name of the tool and
\* the very arguments handed to the handler; and an invocation that returned
\* has the action-result event as the next row of the log and a tool_result
\* entry in the trace, ahead of the prompt entry of any later decision
\* request, no request having been issued in between.
C20_AuditTrail ==
    /\ Len(hist.audits) = Len(hist.handler) + (IF pc = "call" THEN 1 ELSE 0)
    /\ \A i \in DOMAIN hist.handler :
          LET inv == hist.handler[i]
              au == hist.audits[i]
          IN /\ au.iteration = inv.iteration
             /\ au.at = inv.at
             /\ events[au.at].session_id = session_id
             /\ events[au.at].role = "llm"
             /\ events[au.at].content = "Calling tool: " \o inv.tool
             /\ events[au.at].meta =
                    [kind |-> "tool_args", tool_name |-> inv.tool, args |-> inv.args]
             /\ inv.ok =>
                   /\ events[au.at + 1].role = "tool"
                   /\ events[au.at + 1].content = inv.tool \o " returned result"
                   /\ events[au.at + 1].meta =
                          [kind |-> "tool_result", tool_name |-> inv.tool, args |-> EmptyArgs]
                   /\ \E j \in DOMAIN steps :
                         /\ steps[j].type = "tool_result"
                         /\ steps[j].iteration = inv.iteration
                         /\ steps[j].tool = inv.tool
                         /\ \A k \in PromptSteps :
                               steps[k].iteration > inv.iteration => k > j
                   /\ (inv.iteration = iteration) =>
                         (pc \in {"loop", "done"} /\ hist.primary = iteration)

\* Two handlers were invoked in a run, the second with arguments that
\* validation had rewritten.
C20_Witness ==
    /\ pc = "loop"
    /\ iteration = 2
    /\ Len(hist.handler) = 2
    /\ hist.handler[2].ok
    /\ hist.handler[2].args # hist.requested
    /\ events[hist.audits[2].at].meta.args = hist.handler[2].args

\* The types of the trace entries that describe the end of a run.
EndingTypes == {"final", "error", "blocked", "rate_limited", "tool_error", "llm_error"}

\* C21: the trace of a run that has returned ends with an entry that
\* describes what ended the run, whatever ended it, the exhaustion of the
\* iteration budget (and max_iters = 0) included.
C21_EndingRecorded ==
    pc = "done" => (steps # <<>> /\ LastStep.type \in EndingTypes)

\* C22: no step of a run changes or removes an entry that is in the trace:
\* the trace after the step has the trace before it as a prefix.
C22_TraceWriteOnce ==
    [][pc # "idle" =>
          /\ Len(steps') >= Len(steps)
          /\ \A i \in DOMAIN steps : steps'[i] = steps[i]]_vars

\* The last check was answered with a rejection.
Rejected == Checked /\ lastCheck.outcome = "return" /\ ~lastCheck.allowed

\* The timestamps the last check found in the window of its key that were not
\* older than its window.
RemainingOfLast ==
    SelectSeq(lastCheck.before, LAMBDA t : t >= lastCheck.now - WindowTicks(rule))

\* The time from the last check to the end of the window of the oldest
\* remaining timestamp, in ticks.
RemainderOfLast == (MinOf(RemainingOfLast) + WindowTicks(rule)) - lastCheck.now

\* The least number of whole seconds that is not less than x ticks (x >= 0).
CeilOfTicks(x) == (x + TicksPerSec - 1) \div TicksPerSec

\* C25: a rejection carries retry_after_seconds equal to the ceiling of
\* (oldest remaining timestamp + window_seconds - now), and 1 at least.
C25_RetryAfterIsCeiling ==
    Rejected => lastCheck.retry_after_seconds = Max(1, CeilOfTicks(RemainderOfLast))

\* C26: once a decision with no tool call and no final text (none, or an
\* empty one) has been dispatched on, the run is over: it returned with the
\* diagnostic as final text and an error entry carrying it as last trace
\* entry; no oracle was asked after that decision, and neither the limiter
\* nor a handler was called for it.
C26_EmptyDecision ==
    (Dispatched /\ iteration > 0 /\ hist.via # "none"
     /\ ~llm_resp.has_tool_call /\ llm_resp.final_text \in {PyNone, PyStr("")}) =>
        /\ pc = "done"
        /\ result = [kind |-> "return",
                     final_text |-> "LLM returned neither a tool call nor final text. Stopping."]
        /\ LastStep.type = "error"
        /\ LastStep.text = "LLM returned neither a tool call nor final text. Stopping."
        /\ LastStep.iteration = iteration
        /\ steps[Len(steps) - 1].type = "llm_result"
        /\ hist.primary = iteration
        /\ hist.primary = Cardinality(PromptSteps)
        /\ hist.fallback <= Cardinality(FallbackSteps)
        /\ InvokedNow = {}
        /\ CheckedNow = {}

\* The second decision of a run had no tool call and the empty final text.
C26_Witness ==
    /\ pc = "done"
    /\ iteration = 2
    /\ ~llm_resp.has_tool_call
    /\ llm_resp.final_text = PyStr("")
    /\ LastStep.type = "error"
    /\ Len(hist.handler) = 1

\* The window the limiter holds for a (session, tool) pair.
WindowOf(p) == CallsGet(calls, Key(p[1], p[2]))

\* C27: a check, which is a check for one (session, tool) pair, changes the
\* window of no other pair: no step changes the windows of two different
\* pairs.
C27_PerPairState ==
    [][\A p \in KeyPairs, q \in KeyPairs :
          (p # q /\ WindowOf(p)' # WindowOf(p)) => WindowOf(q)' = WindowOf(q)]_vars

\* C30: when the last check was a rejection with retry_after_seconds = r, and
\* the next check of all, made r seconds after it, is for the same key, that
\* check is admitted.
C30_RetryAfterSuffices ==
    [][(/\ Rejected
        /\ lastCheck' # lastCheck
        /\ lastCheck'.key = lastCheck.key
        /\ lastCheck'.now = lastCheck.now + lastCheck.retry_after_seconds * TicksPerSec)
          => (lastCheck'.outcome = "return" /\ lastCheck'.allowed)]_vars

\* The rows of a session in the order in which they were appended.
Appended(s) == SelectSeq(events, LAMBDA e : e.session_id = s)

\* The last n rows of a sequence.
LastOf(q, n) == IF Len(q) <= n THEN q ELSE SubSeq(q, Len(q) - n + 1, Len(q))

\* C23: get_recent(session, limit) returns the min(limit, n) rows appended
\* last to that session, in the order in which they were appended, and no
\* row of another session, whatever timestamps the clock gave the rows.
C23_RecentInOrder ==
    recent.asked => recent.rows = LastOf(Appended(recent.session_id), recent.limit)

\* C24: the event log is append-only across any sequence of runs: every step
\* of the loop leaves every row already stored as it is (session, timestamp,
\* role, content and metadata, whatever is done later to the mapping the
\* metadata was taken from) and only adds rows after them.
C24_AppendOnly ==
    [][/\ Len(events') >= Len(events)
       /\ \A i \in DOMAIN events : events'[i] = events[i]]_vars

\* The rows of the log that carry the arguments of a decision.
RowsWithArgs == {i \in DOMAIN events : events[i].meta.kind \in {"requested_args", "tool_args"}}

\* The rows at which a call of run began.
RunRows == {i \in DOMAIN events : events[i].role = "user"}

\* A second run has ended with a row that carries arguments, after a first run
\* that left such a row as well.
C24_Witness ==
    /\ pc = "done"
    /\ Cardinality(RunRows) = 2
    /\ \E i \in RowsWithArgs, r \in RunRows, j \in RowsWithArgs : i < r /\ r < j

\* The times at which the handler of a tool was called in session s1: the
\* call follows the insertion of its audit row (lines 211-219), whose ts these
\* are (when the audit row is the last step taken, the call is the next
\* statement).
HandlerStarts(tool) ==
    LET rows == SelectSeq(events, LAMBDA e : /\ e.session_id = "s1"
                                            /\ e.meta.kind = "tool_args"
                                            /\ e.meta.tool_name = tool)
    IN [i \in DOMAIN rows |-> rows[i].ts]

\* The times of the admitted checks of a tool in session s1.
Admissions(tool) == CallsGet(admitted, Key("s1", tool))

\* The members of a sequence of times that lie in the window that begins at t.
InWindowFrom(q, t) == {j \in DOMAIN q : t <= q[j] /\ q[j] <= t + WindowTicks(rule)}

\* Every call of the handler of a rate-limited tool in the run in hand came
\* after an admitted check of the same iteration, and no iteration called a
\* handler twice.
AdmittedBeforeInvoked ==
    /\ \A i \in DOMAIN hist.handler :
          HasRateLimit(hist.handler[i].tool) =>
              \E c \in DOMAIN hist.checks :
                  /\ hist.checks[c].iteration = hist.handler[i].iteration
                  /\ hist.checks[c].tool = hist.handler[i].tool
                  /\ hist.checks[c].outcome = "return"
                  /\ hist.checks[c].allowed
    /\ \A i, j \in DOMAIN hist.handler :
          hist.handler[i].iteration = hist.handler[j].iteration => i = j

\* Over all the runs so far, no tool was called more often than it was admitted.
OneCallPerAdmission ==
    \A tool \in ToolNames :
        HasRateLimit(tool) => Len(HandlerStarts(tool)) <= Len(Admissions(tool))

\* C28 as stated: across sequential runs in one session the handler of a
\* rate-limited tool is called only after an admitted check of the same
\* iteration, at most once per admission, and no more than max_calls calls of
\* that handler start within any window of window_seconds.
C28_StartsBounded ==
    /\ AdmittedBeforeInvoked
    /\ OneCallPerAdmission
    /\ \A tool \in ToolNames :
          HasRateLimit(tool) =>
              \A i \in DOMAIN HandlerStarts(tool) :
                  Cardinality(InWindowFrom(HandlerStarts(tool), HandlerStarts(tool)[i]))
                      <= rule.max_calls

\* C28, amended: across sequential runs in one session the handler of a
\* rate-limited tool is called only after an admitted check of the same
\* iteration, at most once per admission and not before it, and no more than
\* max_calls checks of that tool are admitted within any window of
\* window_seconds.
C28_AdmissionsBounded ==
    /\ AdmittedBeforeInvoked
    /\ OneCallPerAdmission
    /\ \A tool \in ToolNames :
          HasRateLimit(tool) =>
              /\ \A k \in DOMAIN HandlerStarts(tool) :
                    k \in DOMAIN Admissions(tool) /\ HandlerStarts(tool)[k] >= Admissions(tool)[k]
              /\ \A i \in DOMAIN Admissions(tool) :
                    Cardinality(InWindowFrom(Admissions(tool), Admissions(tool)[i]))
                        <= rule.max_calls

\* Under max_calls = 1 the handler of hold_booking was called in two runs, the
\* second call starting within window_seconds of the first, each after its
\* own admission.
C28_Witness ==
    /\ rule.max_calls = 1
    /\ Cardinality(RunRows) = 2
    /\ Len(HandlerStarts("hold_booking")) = 2
    /\ Len(hist.handler) = 1
    /\ HandlerStarts("hold_booking")[2] - HandlerStarts("hold_booking")[1] <= WindowTicks(rule)
    /\ Admissions("hold_booking")[2] - Admissions("hold_booking")[1] > WindowTicks(rule)

\* The run in hand is over and never came to the rate check.
EndedBeforeCheck == pc \in {"done", "raised"} /\ hist.checks = <<>>

\* C29: a run that ends before the rate check (oracle error, final answer,
\* empty decision, unknown tool, safety block, validation block) leaves the
\* state of the rate limiter as it was when the run began.
C29_NoQuotaBeforeCheck == EndedBeforeCheck => calls = hist.quota

\* A run ended at the safety gate or at validation, without a rate check, in a
\* session whose window of hold_booking held a call when the run began.
C29_Witness ==
    /\ EndedBeforeCheck
    /\ pc = "done"
    /\ LastStep.type = "blocked"
    /\ CallsGet(hist.quota, Key("s1", "hold_booking")) # <<>>

\* The row with which the run in hand began: the last user row of the log.
RunStart == CHOOSE i \in RunRows : \A j \in RunRows : j <= i

\* C31: when run has returned, the first row it appended to the log of its
\* session is the user row with the goal, the last row it appended has the
\* returned final_text as its content, and these are two rows at least.
C31_LogFramesRun ==
    pc = "done" =>
        /\ RunRows # {}
        /\ events[RunStart].session_id = session_id
        /\ events[RunStart].content = Goal
        /\ Len(events) >= RunStart + 1
        /\ events[Len(events)].session_id = session_id
        /\ events[Len(events)].role # "user"
        /\ events[Len(events)].content = result.final_text

\* A run has returned on exhaustion after a handler returned: its last trace
\* entry is a tool_result, its last row the message of the exhaustion.
C31_Witness ==
    /\ pc = "done"
    /\ steps # <<>>
    /\ LastStep.type = "tool_result"
    /\ events[Len(events)].role = "agent"
    /\ Len(events) > 2

====
